---- MODULE Spec2Model ----
(***************************************************************************)
(* Todo API of src/main.py: the task collection of the document store and  *)
(* the handlers create_task, toggle_task, update_task, delete_task and     *)
(* list_tasks.  A handler is a sequence of store calls; every store call   *)
(* is atomic on one document and handlers of concurrent requests           *)
(* interleave between their store calls.                                   *)
(*                                                                         *)
(* Optional values: None is <<>>, a present value v is <<v>>.              *)
(* A string is modelled by its length (title, notes), a datetime by a      *)
(* natural number, an ObjectId by a positive natural number.               *)
(***************************************************************************)
EXTENDS Integers, Sequences, FiniteSets, TLC

\* ---------------------------------------------------------------- bounds
NReq == 2          \* requests issued in one behaviour
MaxOid == 2        \* ObjectIds the store can issue
MaxClock == 1      \* largest reading of the clock

\* ------------------------------------------------------------- constants
MinTitleLen == 1
MaxTitleLen == 200
MaxNotesLen == 2000

Req == 1..NReq
Slots == 1..(NReq + 1)
Oids == 1..MaxOid          \* the ObjectIds the store issues, in this order
UnknownOid == MaxOid + 1   \* an ObjectId the store never issues
AllOids == Oids \cup {UnknownOid}

None == <<>>
Some(v) == <<v>>

\* ---------------------------------------------------- identifier strings
\* The text of a path parameter: hex says whether it is 24 hex digits, n is
\* the number those digits spell.
StrOfOid(oid) == [hex |-> TRUE, n |-> oid]
BadIdStr == [hex |-> FALSE, n |-> 0]
NoIdStr == [hex |-> FALSE, n |-> 1]
TaskIdStrs == {StrOfOid(o) : o \in AllOids} \cup {BadIdStr}

\* ObjectId(task_id): None stands for the exception of a malformed text.
ObjectId(task_id) == IF task_id.hex /\ task_id.n > 0 THEN Some(task_id.n) ELSE None

\* datetime.isoformat()
isoformat(t) == [iso |-> t]

\* ---------------------------------------------------------------- inputs
Fields == {"title", "notes", "due_at", "completed"}
NoPayload == [title |-> None, notes |-> None, due_at |-> None, completed |-> None]

\* Titles and notes on and beyond the limits of their lengths.
TitleInputs == {0, 1, 200, 201}
NotesInputs == {None, Some(0), Some(2001)}

\* Bodies of POST /api/tasks.
CreatePayloads ==
  { [NoPayload EXCEPT !.title = t, !.notes = n] :
      t \in {None, Some(0), Some(1), Some(201)}, n \in NotesInputs }

\* Bodies of PUT /api/tasks/{id}: no field; fields that fail validation;
\* title and an empty notes; due_at and completed = false; completed = true.
UpdatePayloads ==
  {NoPayload}
    \cup { [NoPayload EXCEPT !.title = Some(t)] : t \in TitleInputs \ {1, 200} }
    \cup { [NoPayload EXCEPT !.notes = Some(2001)] }
    \cup { [NoPayload EXCEPT !.title = Some(200), !.notes = Some(0)] }
    \cup { [NoPayload EXCEPT !.due_at = Some(1), !.completed = Some(FALSE)] }
    \cup { [NoPayload EXCEPT !.completed = Some(TRUE)] }

\* ------------------------------------------------------ request validation
\* TaskCreate: title required, 1..200; notes at most 2000.
TaskCreateValid(p) ==
  /\ p.title # None
  /\ p.title[1] >= MinTitleLen /\ p.title[1] <= MaxTitleLen
  /\ (p.notes = None \/ p.notes[1] <= MaxNotesLen)

\* Mutant: TaskUpdate without its Field constraints.
TaskUpdateValid_any(p) == TRUE

\* TaskUpdate: every field optional; a title that is given is 1..200.
TaskUpdateValid(p) ==
  /\ (p.title = None \/ (p.title[1] >= MinTitleLen /\ p.title[1] <= MaxTitleLen))
  /\ (p.notes = None \/ p.notes[1] <= MaxNotesLen)

VARIABLES
  store,     \* db[TASK_COLLECTION]: ObjectId -> optional document
  nextOid,   \* the next ObjectId the store issues
  clock,     \* the last reading of datetime.utcnow()
  req,       \* the requests: arguments, position in the handler, response
  writers,   \* history: per task, the requests whose update_one matched
  deleted    \* history: the ObjectIds a delete_task has removed
vars == <<store, nextOid, clock, req, writers, deleted>>

\* ------------------------------------------------------------ the store
\* db[TASK_COLLECTION]: one optional document per ObjectId.
find_one(st, oid) == st[oid]

\* $set: the named fields are overwritten, the others kept.
SetFields(doc, upd) ==
  [k \in DOMAIN doc |-> IF k \in DOMAIN upd THEN upd[k] ELSE doc[k]]

matched_count(st, oid) == IF st[oid] = None THEN 0 ELSE 1

\* Mutant: update_one with upsert=True stores a document when none matches.
update_one_upsert(st, oid, upd) ==
  LET blank == [_id |-> oid, title |-> None, notes |-> None, due_at |-> None,
                completed |-> None, updated_at |-> None]
  IN  [st EXCEPT ![oid] =
         Some(SetFields(IF st[oid] = None THEN blank ELSE st[oid][1], upd))]

\* update_one(filter, {"$set": upd}) without upsert.
update_one(st, oid, upd) ==
  IF st[oid] = None THEN st
  ELSE [st EXCEPT ![oid] = Some(SetFields(st[oid][1], upd))]

\* Mutant: the result of delete_one is not looked at.
deleted_count_one(st, oid) == 1

deleted_count(st, oid) == IF st[oid] = None THEN 0 ELSE 1
delete_one(st, oid) == [st EXCEPT ![oid] = None]

\* create_document: stamps the document and inserts it under a new ObjectId.
create_document(st, oid, data, t) ==
  [st EXCEPT ![oid] =
     Some([_id |-> oid, title |-> data.title, notes |-> data.notes,
           due_at |-> data.due_at, completed |-> data.completed,
           updated_at |-> Some(t)])]

\* get_documents(TASK_COLLECTION, {}, None)
get_documents(st) == {st[o][1] : o \in {x \in DOMAIN st : st[x] # None}}

\* ------------------------------------------------------ handler helpers
\* Task(title=..., notes=..., due_at=..., completed=False)
Task(p) ==
  [title |-> p.title, notes |-> p.notes, due_at |-> p.due_at,
   completed |-> Some(FALSE)]

IsoOpt(v) == IF v = None THEN None ELSE Some(isoformat(v[1]))

\* serialize_doc: identity on an absent document; otherwise _id becomes the
\* string id and every datetime its isoformat.
serialize_doc(doc) ==
  IF doc = None THEN None
  ELSE Some([id |-> StrOfOid(doc[1]._id), title |-> doc[1].title,
             notes |-> doc[1].notes, due_at |-> IsoOpt(doc[1].due_at),
             completed |-> doc[1].completed,
             updated_at |-> IsoOpt(doc[1].updated_at)])

\* TaskOut(**serialize_doc(doc)): ** of None raises, the request ends in 500.
TaskOutResponse(doc) ==
  IF serialize_doc(doc) = None
  THEN [status |-> 500, msg |-> "Internal Server Error", body |-> None]
  ELSE [status |-> 200, msg |-> "", body |-> serialize_doc(doc)]

\* Mutant: the toggle marks the task completed instead of flipping it.
new_completed_set(doc) == TRUE

\* not doc.get("completed", False)
new_completed(doc) ==
  ~ (IF doc.completed = None THEN FALSE ELSE doc.completed[1])

toggle_set(nc, t) == ("completed" :> Some(nc)) @@ ("updated_at" :> Some(t))

\* Mutant: the flip is computed from the document stored at the write.
toggle_update_atomic(st, oid, nc, t) ==
  update_one(st, oid,
             toggle_set(IF st[oid] = None THEN nc ELSE new_completed(st[oid][1]), t))

\* update_one({"_id": oid}, {"$set": {"completed": new_completed, ...}}): the
\* value written is the one computed from the document read before.
toggle_update(st, oid, nc, t) == update_one(st, oid, toggle_set(nc, t))

\* Mutant: the filter is "if v": false and the empty string are dropped too.
Truthy(f, v) ==
  /\ v # None
  /\ (f = "completed" => v[1])
  /\ (f \in {"title", "notes"} => v[1] > 0)
update_data_truthy(p) == [k \in {f \in Fields : Truthy(f, p[f])} |-> p[k]]

\* {k: v for k, v in payload.model_dump().items() if v is not None}
update_data(p) == [k \in {f \in Fields : p[f] # None} |-> p[k]]

\* Mutant: the test is "if update_data is None", which never holds.
NoFields_never(upd) == FALSE

\* if not update_data
NoFields(upd) == DOMAIN upd = {}

\* datetime.utcnow(): the clock does not run backwards.
Now == {t \in clock..(clock + 1) : t <= MaxClock}

\* ------------------------------------------------------------- requests
\* The identifiers a client can send: the text of an ObjectId the store has
\* issued, of one it never issues, or a text that is no ObjectId.
TaskIdInputs ==
  {StrOfOid(o) : o \in {x \in Oids : x < nextOid}}
    \cup {StrOfOid(UnknownOid), BadIdStr}

Idle ==
  [pc |-> "idle", op |-> "none", task_id |-> NoIdStr, payload |-> NoPayload,
   oid |-> 0, nc |-> FALSE, ts |-> 0,
   status |-> 0, msg |-> "", body |-> None, listed |-> {},
   before |-> None, rlen |-> 0, wpos |-> 0, flen |-> 0]

UpdatedAtOf(st, o) ==
  IF o = None THEN None
  ELSE IF st[o[1]] = None THEN None ELSE st[o[1]][1].updated_at

\* A request enters: its arguments and the updated_at its target has at that
\* moment.
Begin(op, task_id, p) ==
  [Idle EXCEPT !.op = op, !.task_id = task_id, !.payload = p,
               !.before = UpdatedAtOf(store, ObjectId(task_id))]

\* The answered request keeps its operation, its identifier and its response.
Answer(rec, status, msg, body) ==
  [rec EXCEPT !.pc = "done", !.status = status, !.msg = msg, !.body = body,
              !.payload = NoPayload, !.ts = 0, !.before = None, !.oid = 0]

AnswerWith(rec, resp) == Answer(rec, resp.status, resp.msg, resp.body)

\* Requests take the slots in order.
CanStart(r) ==
  /\ req[r].pc = "idle"
  /\ IF r = 1 THEN TRUE ELSE req[r - 1].pc # "idle"

\* The collection outlives the process: it holds one task that an earlier
\* create_task stored and that may have been toggled since.
FirstTask(c) ==
  [_id |-> 1, title |-> Some(1), notes |-> None, due_at |-> None,
   completed |-> Some(c), updated_at |-> Some(0)]

Init ==
  /\ \E c \in BOOLEAN :
       store = [o \in AllOids |-> IF o = 1 THEN Some(FirstTask(c)) ELSE None]
  /\ nextOid = 2
  /\ clock = 0
  /\ req = [r \in Slots |-> Idle]
  /\ writers = [o \in AllOids |-> <<>>]
  /\ deleted = {}

\* ---------------------------------------------------------- create_task
create_task(r, p) ==
  /\ CanStart(r)
  /\ IF ~ TaskCreateValid(p)
     THEN /\ req' = [req EXCEPT ![r] =
                       Answer(Begin("create", NoIdStr, p), 422, "validation", None)]
          /\ UNCHANGED <<store, nextOid, clock, writers, deleted>>
     ELSE /\ nextOid <= MaxOid
          /\ \E t \in Now :
               /\ store' = create_document(store, nextOid, Task(p), t)
               /\ clock' = t
          /\ nextOid' = nextOid + 1
          /\ req' = [req EXCEPT ![r] =
                       [Begin("create", NoIdStr, p) EXCEPT
                          !.pc = "c_fetch", !.oid = nextOid]]
          /\ UNCHANGED <<writers, deleted>>

create_fetch(r) ==
  /\ req[r].pc = "c_fetch"
  /\ req' = [req EXCEPT ![r] =
               AnswerWith(req[r], TaskOutResponse(find_one(store, req[r].oid)))]
  /\ UNCHANGED <<store, nextOid, clock, writers, deleted>>

\* ---------------------------------------------------------- toggle_task
toggle_task(r, task_id) ==
  /\ CanStart(r)
  /\ LET b == Begin("toggle", task_id, NoPayload)
         oid == ObjectId(task_id)
     IN  req' = [req EXCEPT ![r] =
                   IF oid = None
                   THEN Answer(b, 400, "Invalid task id", None)
                   ELSE IF find_one(store, oid[1]) = None
                   THEN Answer(b, 404, "Task not found", None)
                   ELSE [b EXCEPT !.pc = "t_now", !.oid = oid[1],
                                  !.nc = new_completed(find_one(store, oid[1])[1]),
                                  !.rlen = Len(writers[oid[1]])]]
  /\ UNCHANGED <<store, nextOid, clock, writers, deleted>>

toggle_now(r) ==
  /\ req[r].pc = "t_now"
  /\ \E t \in Now :
       /\ clock' = t
       /\ req' = [req EXCEPT ![r].pc = "t_write", ![r].ts = t]
  /\ UNCHANGED <<store, nextOid, writers, deleted>>

toggle_write(r) ==
  /\ req[r].pc = "t_write"
  /\ LET oid == req[r].oid
         hit == matched_count(store, oid) # 0
     IN  /\ store' = toggle_update(store, oid, req[r].nc, req[r].ts)
         /\ writers' = IF hit THEN [writers EXCEPT ![oid] = Append(@, r)]
                              ELSE writers
         /\ req' = [req EXCEPT ![r].pc = "t_fetch",
                               ![r].wpos = IF hit THEN Len(writers[oid]) + 1 ELSE 0]
  /\ UNCHANGED <<nextOid, clock, deleted>>

toggle_fetch(r) ==
  /\ req[r].pc = "t_fetch"
  /\ req' = [req EXCEPT ![r] =
               AnswerWith([req[r] EXCEPT !.flen = Len(writers[req[r].oid])],
                          TaskOutResponse(find_one(store, req[r].oid)))]
  /\ UNCHANGED <<store, nextOid, clock, writers, deleted>>

\* ---------------------------------------------------------- update_task
update_task(r, task_id, p) ==
  /\ CanStart(r)
  /\ LET b == Begin("update", task_id, p)
         oid == ObjectId(task_id)
     IN  IF ~ TaskUpdateValid(p)
         THEN /\ req' = [req EXCEPT ![r] = Answer(b, 422, "validation", None)]
              /\ UNCHANGED clock
         ELSE IF oid = None
         THEN /\ req' = [req EXCEPT ![r] = Answer(b, 400, "Invalid task id", None)]
              /\ UNCHANGED clock
         ELSE IF NoFields(update_data(p))
         THEN /\ req' = [req EXCEPT ![r] = Answer(b, 400, "No fields to update", None)]
              /\ UNCHANGED clock
         ELSE \E t \in Now :
                /\ clock' = t
                /\ req' = [req EXCEPT ![r] =
                             [b EXCEPT !.pc = "u_write", !.oid = oid[1], !.ts = t]]
  /\ UNCHANGED <<store, nextOid, writers, deleted>>

update_write(r) ==
  /\ req[r].pc = "u_write"
  /\ LET oid == req[r].oid
         upd == update_data(req[r].payload) @@ ("updated_at" :> Some(req[r].ts))
     IN  IF matched_count(store, oid) = 0
         THEN /\ req' = [req EXCEPT ![r] =
                           Answer(req[r], 404, "Task not found", None)]
              /\ store' = update_one(store, oid, upd)
              /\ UNCHANGED writers
         ELSE /\ store' = update_one(store, oid, upd)
              /\ writers' = [writers EXCEPT ![oid] = Append(@, r)]
              /\ req' = [req EXCEPT ![r].pc = "u_fetch",
                                    ![r].wpos = Len(writers[oid]) + 1]
  /\ UNCHANGED <<nextOid, clock, deleted>>

update_fetch(r) ==
  /\ req[r].pc = "u_fetch"
  /\ req' = [req EXCEPT ![r] =
               AnswerWith([req[r] EXCEPT !.flen = Len(writers[req[r].oid])],
                          TaskOutResponse(find_one(store, req[r].oid)))]
  /\ UNCHANGED <<store, nextOid, clock, writers, deleted>>

\* ---------------------------------------------------------- delete_task
delete_task(r, task_id) ==
  /\ CanStart(r)
  /\ LET b == Begin("delete", task_id, NoPayload)
         oid == ObjectId(task_id)
     IN  IF oid = None
         THEN /\ req' = [req EXCEPT ![r] = Answer(b, 400, "Invalid task id", None)]
              /\ UNCHANGED <<store, deleted>>
         ELSE /\ store' = delete_one(store, oid[1])
              /\ IF deleted_count(store, oid[1]) = 0
                 THEN /\ req' = [req EXCEPT ![r] =
                                   Answer(b, 404, "Task not found", None)]
                      /\ UNCHANGED deleted
                 ELSE /\ req' = [req EXCEPT ![r] = Answer(b, 200, "success", None)]
                      /\ deleted' = deleted \cup {oid[1]}
  /\ UNCHANGED <<nextOid, clock, writers>>

\* ----------------------------------------------------------- list_tasks
list_tasks(r) ==
  /\ CanStart(r)
  /\ req' = [req EXCEPT ![r] =
               [Answer(Begin("list", NoIdStr, NoPayload), 200, "", None) EXCEPT
                  !.listed = {serialize_doc(Some(d))[1].id : d \in get_documents(store)}]]
  /\ UNCHANGED <<store, nextOid, clock, writers, deleted>>

Step(r) ==
  \/ \E p \in CreatePayloads : create_task(r, p)
  \/ create_fetch(r)
  \/ \E i \in TaskIdInputs : toggle_task(r, i)
  \/ toggle_now(r)
  \/ toggle_write(r)
  \/ toggle_fetch(r)
  \/ \E i \in TaskIdInputs : \E p \in UpdatePayloads : update_task(r, i, p)
  \/ update_write(r)
  \/ update_fetch(r)
  \/ \E i \in TaskIdInputs : delete_task(r, i)
  \/ list_tasks(r)

\* NReq requests.
Next == \E r \in Req : Step(r)
Spec == Init /\ [][Next]_vars

\* One request more.
Next3 == \E r \in Slots : Step(r)
Spec3 == Init /\ [][Next3]_vars

\* =================================================================
\* Properties
\* =================================================================
Stored(o) == store[o] # None
Doc(o) == store[o][1]
Answered(r) == req[r].pc = "done"
IdOf(r) == ObjectId(req[r].task_id)
Ok(r, op) == Answered(r) /\ req[r].op = op /\ req[r].status = 200
WellFormed == {i \in TaskIdStrs : ObjectId(i) # None}
Malformed == {i \in TaskIdStrs : ObjectId(i) = None}

\* Request r comes in with this step, for the operation op.
Enters(r, op) == req[r].pc = "idle" /\ req'[r].op = op

Is400Invalid(rec) ==
  rec.pc = "done" /\ rec.status = 400 /\ rec.msg = "Invalid task id"
Is404(rec) ==
  rec.pc = "done" /\ rec.status = 404 /\ rec.msg = "Task not found"

\* r1 then r2 are toggles of task o that both succeeded, r1 read, wrote and
\* re-fetched before r2 read, and each wrote right after the write it read:
\* no other write to the task lies between r1's read and r2's write.
Successive(r1, r2, o) ==
  /\ r1 # r2
  /\ Ok(r1, "toggle") /\ Ok(r2, "toggle")
  /\ IdOf(r1) = Some(o) /\ IdOf(r2) = Some(o)
  /\ req[r1].wpos = req[r1].rlen + 1
  /\ req[r1].flen = req[r1].wpos
  /\ req[r2].rlen = req[r1].wpos
  /\ req[r2].wpos = req[r2].rlen + 1

\* C1: after two successive successful toggles of a task with no other
\* write to it in between, the stored completed is the value the first
\* toggle read, and the first toggle answered the negation of that value.
C1_ToggleTwice ==
  \A r1, r2 \in Slots : \A o \in Oids :
    (Successive(r1, r2, o) /\ Stored(o) /\ Len(writers[o]) = req[r2].wpos)
      => /\ Doc(o).completed = Some(~ req[r1].nc)
         /\ req[r1].body[1].completed = Some(req[r1].nc)

C1_Witness ==
  \E r1, r2 \in Slots : \E o \in Oids :
    /\ Successive(r1, r2, o) /\ Stored(o) /\ Len(writers[o]) = req[r2].wpos
    /\ Doc(o).completed = Some(TRUE)

\* C2: an update with a well-formed identifier and no field is answered at
\* once with 400 "No fields to update" and writes nothing to the store,
\* whether or not the task exists.
C2_EmptyUpdate ==
  [][\A r \in Slots : \A i \in WellFormed :
       (Enters(r, "update") /\ update_task(r, i, NoPayload))
         => /\ req'[r].pc = "done"
            /\ req'[r].status = 400
            /\ req'[r].msg = "No fields to update"
            /\ req'[r].wpos = 0
            /\ store' = store]_vars

C2_Witness ==
  \E r \in Slots : \E o \in Oids :
    /\ Answered(r) /\ req[r].op = "update" /\ IdOf(r) = Some(o)
    /\ req[r].status = 400 /\ req[r].msg = "No fields to update"
    /\ Stored(o)

\* Deletion is permanent, with P the bodies of the later updates: a deleted
\* task stays deleted and is never stored again, a later toggle or delete
\* of it is answered 404, a later list does not return it, a later update
\* with a body of P is answered with nothing but 404, and the write of an
\* update finds no task and answers 404.
Permanent(P) ==
  \A o \in deleted :
    /\ o \in deleted'
    /\ store'[o] = None
    /\ \A r \in Slots :
         /\ ((Enters(r, "toggle") \/ Enters(r, "delete"))
               /\ (toggle_task(r, StrOfOid(o)) \/ delete_task(r, StrOfOid(o))))
              => Is404(req'[r])
         /\ Enters(r, "update")
              => \A p \in P :
                   update_task(r, StrOfOid(o), p)
                     => (req'[r].pc = "u_write" /\ req'[r].oid = o)
         /\ (req[r].pc = "u_write" /\ req[r].oid = o /\ update_write(r))
              => Is404(req'[r])
         /\ (Enters(r, "list") /\ list_tasks(r))
              => StrOfOid(o) \notin req'[r].listed

C4_CreateFresh ==
  \A r \in Slots :
    Ok(r, "create")
      => /\ req[r].body[1].completed = Some(FALSE)
         /\ ObjectId(req[r].body[1].id) # None
         /\ req[r].body[1].id # StrOfOid(1)
         /\ \A r2 \in Slots \ {r} :
              Ok(r2, "create") => req[r2].body[1].id # req[r].body[1].id

\* C5: when a toggle or update of a stored task is answered, the task's
\* updated_at is not below the value it had when the call came in.
C5_UpdatedAtMonotone ==
  [][\A r \in Slots :
       (/\ req[r].pc \in {"t_fetch", "u_fetch"}
        /\ req'[r].pc = "done"
        /\ req[r].before # None
        /\ store'[req[r].oid] # None)
         => store'[req[r].oid][1].updated_at[1] >= req[r].before[1]]_vars

\* C6: the write of an update that found its task sets every field the
\* body gives to the value given (completed = false and an empty notes
\* included), keeps _id and every field the body omits, and changes no
\* other task; a body that passes validation and gives a field is not
\* answered as an empty update.
C6_UpdateFrame ==
  [][\A r \in Slots :
       /\ (req[r].pc = "u_write" /\ req'[r].pc = "u_fetch")
            => LET o == req[r].oid
                   p == req[r].payload
               IN  /\ Stored(o) /\ store'[o] # None
                   /\ \A f \in Fields :
                        store'[o][1][f] = IF p[f] # None THEN p[f] ELSE Doc(o)[f]
                   /\ store'[o][1]._id = Doc(o)._id
                   /\ \A o2 \in AllOids \ {o} : store'[o2] = store[o2]
       /\ Enters(r, "update")
            => \A i \in WellFormed : \A p \in UpdatePayloads :
                 (update_task(r, i, p) /\ TaskUpdateValid(p) /\ p # NoPayload)
                   => (req'[r].pc = "u_write" /\ req'[r].payload = p)]_vars

\* An update that gives due_at and completed = false and no title has been
\* written to a task, while another task is stored.
C6_Witness ==
  \E r \in Slots : \E o, o2 \in Oids :
    /\ req[r].pc = "u_fetch" /\ req[r].oid = o
    /\ req[r].payload.completed = Some(FALSE)
    /\ req[r].payload.title = None
    /\ Stored(o) /\ Doc(o).completed = Some(FALSE) /\ Doc(o).due_at = Some(1)
    /\ Doc(o).title = Some(1)
    /\ o2 # o /\ Stored(o2)

\* The classification of toggle, update and delete for the update bodies P.
Classified(P) ==
  \A r \in Slots :
    /\ (Enters(r, "toggle") \/ Enters(r, "delete"))
         => /\ \A i \in Malformed :
                 (toggle_task(r, i) \/ delete_task(r, i)) => Is400Invalid(req'[r])
            /\ \A i \in WellFormed :
                 ((toggle_task(r, i) \/ delete_task(r, i))
                    /\ store[ObjectId(i)[1]] = None) => Is404(req'[r])
    /\ Enters(r, "update")
         => /\ \A i \in Malformed : \A p \in P :
                 update_task(r, i, p) => Is400Invalid(req'[r])
            /\ \A i \in WellFormed : \A p \in P \ {NoPayload} :
                 (update_task(r, i, p) /\ store[ObjectId(i)[1]] = None)
                   => (req'[r].pc = "u_write" /\ req'[r].oid = ObjectId(i)[1])
    /\ (update_write(r) /\ store[req[r].oid] = None) => Is404(req'[r])
    /\ (req[r].pc # "done" /\ req'[r].pc = "done" /\ req'[r].status \in {400, 404})
         => (store' = store /\ req'[r].wpos = 0)

C8_TaskInvariant ==
  \A o \in AllOids :
    Stored(o)
      => /\ Doc(o).title # None
         /\ Doc(o).title[1] >= MinTitleLen /\ Doc(o).title[1] <= MaxTitleLen
         /\ Doc(o).completed \in {Some(TRUE), Some(FALSE)}
         /\ Doc(o)._id = o

\* A task whose title an update has replaced and which a toggle has flipped.
C8_Witness ==
  \E o \in Oids :
    /\ Stored(o) /\ Doc(o).title = Some(200) /\ Len(writers[o]) = 2
    /\ \E r \in Slots : req[r].op = "toggle" /\ req[r].wpos > 0 /\ IdOf(r) = Some(o)

\* r1 and r2 are toggles of task o that both read it after the same write
\* and were both answered; theirs are the two writes that followed.
Raced(r1, r2, o) ==
  /\ r1 # r2
  /\ Ok(r1, "toggle") /\ Ok(r2, "toggle")
  /\ IdOf(r1) = Some(o) /\ IdOf(r2) = Some(o)
  /\ req[r1].rlen = req[r2].rlen
  /\ req[r1].wpos = req[r1].rlen + 1
  /\ req[r2].wpos = req[r1].rlen + 2

\* C9: two toggles of a task that both read the same completed both write
\* its negation: once both are answered the stored completed is the
\* negation of the value they read, one flip and not two.
C9_ToggleRace ==
  \A r1, r2 \in Slots : \A o \in Oids :
    (Raced(r1, r2, o) /\ Stored(o) /\ Len(writers[o]) = req[r2].wpos)
      => /\ req[r1].nc = req[r2].nc
         /\ Doc(o).completed = Some(req[r1].nc)

C9_Witness ==
  \E r1, r2 \in Slots : \E o \in Oids :
    /\ Raced(r1, r2, o) /\ Stored(o) /\ Len(writers[o]) = req[r2].wpos
    /\ req[r1].nc = TRUE /\ Doc(o).completed = Some(TRUE)

\* C10: every toggle and every non-empty update that reached the handler
\* with a well-formed identifier is answered 404 "Task not found" or with
\* the serialized task of that identifier.
C10_TwoOutcomes ==
  \A r \in Slots :
    (/\ Answered(r) /\ req[r].op \in {"toggle", "update"}
     /\ IdOf(r) # None
     /\ req[r].status # 422
     /\ req[r].msg # "No fields to update")
      => \/ Is404(req[r])
         \/ /\ req[r].status = 200 /\ req[r].body # None
            /\ req[r].body[1].id = req[r].task_id

====
